---- MODULE Spec2Model ----
(***************************************************************************)
(* Model of Archive/SEC_Edgar.py: the value selector (select_value), the   *)
(* completeness filter (get_complete_filing_years), the consolidated table *)
(* of a Company (appendFilings) and the __main__ processing loop.          *)
(*                                                                         *)
(* Cell values are strings: "NaN" is the floating-point missing value,     *)
(* "None" is Python's None, anything else is a reported number.            *)
(***************************************************************************)
EXTENDS Integers, Sequences, FiniteSets, TLC

VARIABLES
  table,        \* Company.consolidated_filings: [cols, rows]
  pre,          \* consolidated_filings as it was when the last call started
  df,           \* argument df of the last appendFilings call
  filingDate,   \* argument filingDate of the last appendFilings call
  calls,        \* number of appendFilings calls made
  fed,          \* number of df rows passed to appendFilings so far
  seenDates,    \* every filingDate passed to appendFilings so far
  seenCombs     \* every (tag, stmt) passed to appendFilings so far

mvars == <<table, pre, df, filingDate, calls, fed, seenDates, seenCombs>>

VARIABLES
  row,          \* select_value: the candidate values of one line item
  merged,       \* select_value: what it returned
  spc           \* select_value: "call" before, "done" after

svars == <<row, merged, spc>>

VARIABLES
  filings,      \* get_complete_filing_years: the argument df
  complete,     \* get_complete_filing_years: the DataFrame returned
  fpc           \* "call" before, then "returned" or "KeyError"

fvars == <<filings, complete, fpc>>

VARIABLES
  ppc,             \* __main__: "company", "loop", "csv", "done" or "failed"
  comp,            \* __main__: index in CompanyNames of the company at hand
  completeFilings, \* __main__: the filter's result for that company
  pos,             \* __main__: index in completeFilings of the row at hand
  tables,          \* consolidated_filings of every Company object
  csv,             \* the files written by to_csv
  log,             \* per company, the appendFilings calls that returned
  failedAt         \* the (comp, pos) at which a retrieval failed, or <<>>

pvars == <<ppc, comp, completeFilings, pos, tables, csv, log, failedAt>>

vars == <<mvars, svars, fvars, pvars>>

\* ------------------------------------------------------------------ bounds
MaxCalls == 2   \* appendFilings calls in one run
MaxFed == 3     \* df rows passed to appendFilings in one run, all calls together
MaxCands == 4   \* value columns after 'inpth' handed to select_value
MaxFilings == 5 \* rows of the filing list handed to get_complete_filing_years
MaxListed == 4  \* rows of a company's filing list in a run of __main__

\* ------------------------------------------------------------ value domain
Combinations == {<<"Revenue", "IS">>, <<"Revenue", "BS">>, <<"NetIncome", "IS">>}
Numbers == {"100", "50"}
FilingDates == {"31_03_2023", "30_06_2023"}

\* pd.notna(val)
notna(val) == val \notin {"NaN", "None"}

RECURSIVE SeqsUpTo(_, _)
SeqsUpTo(S, n) ==
  IF n = 0 THEN {<<>>}
  ELSE LET shorter == SeqsUpTo(S, n - 1)
       IN shorter \cup {Append(s, x) : s \in {t \in shorter : Len(t) = n - 1}, x \in S}

Range(s) == {s[i] : i \in DOMAIN s}

\* all enumerations of a finite set as a sequence without repetition
Orders(S) ==
  {s \in [1..Cardinality(S) -> S] : Range(s) = S}

\* --------------------------------------------------------- the table model
\* pd.DataFrame(columns=['tag']): one column, no row
FreshTable == [cols |-> <<"tag">>, rows |-> <<>>]

\* a row of the DataFrame is a function from the column names to values
HasCol(T, c) == c \in Range(T.cols)

\* lines 55-56: a table without rows is re-created with the two key columns
InitIfEmpty(T) ==
  IF Len(T.rows) = 0 THEN [cols |-> <<"tag", "stmt">>, rows |-> <<>>] ELSE T

\* line 59 with the existing rows compared by tag alone
existing_combinations_tagOnly(T) == {<<T.rows[i]["tag"]>> : i \in DOMAIN T.rows}

\* line 59
existing_combinations(T) == {<<T.rows[i]["tag"], T.rows[i]["stmt"]>> : i \in DOMAIN T.rows}

\* lines 52, 60
new_combinations(d) == {<<d[i].tag, d[i].stmt>> : i \in DOMAIN d}

\* line 61 without the set difference
combinations_to_add_all(T, d) == new_combinations(d)

\* line 61
combinations_to_add(T, d) == new_combinations(d) \ existing_combinations(T)

\* line 65: one new row per combination, in the order the set is listed
NewRow(T, comb) ==
  [c \in Range(T.cols) |->
     IF c = "tag" THEN comb[1] ELSE IF c = "stmt" THEN comb[2] ELSE "NaN"]

\* lines 64-66: pd.concat fills the date columns of the new rows with NaN
ConcatNewRows(T, ord) ==
  IF Len(ord) = 0 THEN T
  ELSE [T EXCEPT !.rows = T.rows \o [i \in 1..Len(ord) |-> NewRow(T, ord[i])]]

\* lines 69-70
CreateColumn(T, fd) ==
  IF HasCol(T, fd) THEN T
  ELSE [cols |-> Append(T.cols, fd),
        rows |-> [i \in DOMAIN T.rows |->
                    [c \in Range(T.cols) \cup {fd} |->
                       IF c = fd THEN "None" ELSE T.rows[i][c]]]]

\* lines 74-76 writing only into cells that are still empty
UpdateOne_keepExisting(rows, item, fd) ==
  [i \in DOMAIN rows |->
     IF rows[i]["tag"] = item.tag /\ rows[i]["stmt"] = item.stmt /\ ~notna(rows[i][fd])
     THEN [rows[i] EXCEPT ![fd] = item.merged]
     ELSE rows[i]]

\* lines 74-76 with a mask on the tag alone
UpdateOne_tagMask(rows, item, fd) ==
  [i \in DOMAIN rows |->
     IF rows[i]["tag"] = item.tag
     THEN [rows[i] EXCEPT ![fd] = item.merged]
     ELSE rows[i]]

\* lines 74-76: one iteration of the loop over df
UpdateOne(rows, item, fd) ==
  [i \in DOMAIN rows |->
     IF rows[i]["tag"] = item.tag /\ rows[i]["stmt"] = item.stmt
     THEN [rows[i] EXCEPT ![fd] = item.merged]
     ELSE rows[i]]

\* lines 73-76
RECURSIVE UpdateValues(_, _, _, _)
UpdateValues(rows, d, k, fd) ==
  IF k > Len(d) THEN rows
  ELSE UpdateValues(UpdateOne(rows, d[k], fd), d, k + 1, fd)

\* line 79: replace({np.nan: None})
ReplaceNaN(T) ==
  [T EXCEPT !.rows =
     [i \in DOMAIN T.rows |->
        [c \in DOMAIN T.rows[i] |-> IF T.rows[i][c] = "NaN" THEN "None" ELSE T.rows[i][c]]]]

\* lines 42-81, for one listing order `ord` of combinations_to_add
appendFilings(T, d, fd, ord) ==
  LET T1 == InitIfEmpty(T)
      T2 == ConcatNewRows(T1, ord)
      T3 == CreateColumn(T2, fd)
      T4 == [T3 EXCEPT !.rows = UpdateValues(T3.rows, d, 1, fd)]
  IN ReplaceNaN(T4)

\* the listing orders list(combinations_to_add) can produce
AddOrders(T, d) == Orders(combinations_to_add(InitIfEmpty(T), d))

\* every table one call can produce
AppendResults(T, d, fd) == {appendFilings(T, d, fd, ord) : ord \in AddOrders(T, d)}

\* -------------------------------------------------- inputs of appendFilings
DfRows ==
  {[tag |-> k[1], stmt |-> k[2], merged |-> v] : k \in Combinations, v \in Numbers \cup {"NaN"}}
Dfs == [n \in 0..MaxFed |-> SeqsUpTo(DfRows, n)]

\* ------------------------------------------------------------ select_value
\* line 85 with the indices enumerated from the right
non_nan_reversed(r) ==
  LET idx == {i \in DOMAIN r : notna(r[i])}
      F[n \in 0..Len(r)] ==
        IF n = 0 THEN <<>>
        ELSE IF n \in idx THEN <<<<n, r[n]>>>> \o F[n - 1] ELSE F[n - 1]
  IN F[Len(r)]

\* line 85: [(i, val) for i, val in enumerate(row) if pd.notna(val)]
non_nan(r) ==
  LET F[n \in 0..Len(r)] ==
        IF n = 0 THEN <<>>
        ELSE IF notna(r[n]) THEN Append(F[n - 1], <<n, r[n]>>) ELSE F[n - 1]
  IN F[Len(r)]

\* lines 83-90
select_value(r) ==
  LET nn == non_nan(r) IN
  IF Len(nn) = 1 THEN nn[1][2]
  ELSE IF Len(nn) = 2 THEN nn[Len(nn)][2]
  ELSE "None"

Candidates == Numbers \cup {"NaN", "None"}

\* ------------------------------------------------ get_complete_filing_years
Forms == {"10-K", "10-Q", "8-K"}
Periods == {20220331, 20221231, 20230331}

\* line 107: pd.to_datetime(str(period), format='%Y%m%d')
to_datetime(p) == [year |-> p \div 10000, month |-> (p \div 100) % 100, day |-> p % 100]

\* ordering of two datetimes
Before(a, b) ==
  \/ a.year < b.year
  \/ a.year = b.year /\ a.month < b.month
  \/ a.year = b.year /\ a.month = b.month /\ a.day < b.day

\* lines 107-110: period parsed, filing_year added
WithYear(d) ==
  [i \in DOMAIN d |->
     [adsh |-> d[i].adsh, form |-> d[i].form, period |-> to_datetime(d[i].period),
      filing_year |-> to_datetime(d[i].period).year]]

\* lines 113-120: the pivot has a row per year and a column per form that
\* occur in df, holding the number of adsh
pivot_index(d) == {d[i].filing_year : i \in DOMAIN d}
pivot_columns(d) == {d[i].form : i \in DOMAIN d}
filing_counts(d) ==
  [y \in pivot_index(d) |->
     [f \in pivot_columns(d) |->
        Cardinality({i \in DOMAIN d : d[i].filing_year = y /\ d[i].form = f})]]

\* lines 123-126 with at least three quarterly filings
complete_years_atLeast(d) ==
  {y \in pivot_index(d) : filing_counts(d)[y]["10-Q"] >= 3 /\ filing_counts(d)[y]["10-K"] = 1}

\* lines 123-126; indexing the pivot by a form that is no column raises
complete_years(d) ==
  {y \in pivot_index(d) : filing_counts(d)[y]["10-Q"] = 3 /\ filing_counts(d)[y]["10-K"] = 1}

RaisesKeyError(d) == ~({"10-Q", "10-K"} \subseteq pivot_columns(d))

\* lines 129-132
FilterComplete(d) ==
  SelectSeq(d, LAMBDA f : f.filing_year \in complete_years(d) /\ f.form \in {"10-Q", "10-K"})

\* line 135: sort_values('period'); rows of equal period keep their order
RECURSIVE InsertByPeriod(_, _)
InsertByPeriod(sorted, f) ==
  IF sorted = <<>> THEN <<f>>
  ELSE IF Before(f.period, sorted[Len(sorted)].period)
       THEN Append(InsertByPeriod(SubSeq(sorted, 1, Len(sorted) - 1), f), sorted[Len(sorted)])
       ELSE Append(sorted, f)

RECURSIVE sort_values(_)
sort_values(d) ==
  IF d = <<>> THEN <<>>
  ELSE InsertByPeriod(sort_values(SubSeq(d, 1, Len(d) - 1)), d[Len(d)])

\* line 138
DropYear(d) ==
  [i \in DOMAIN d |-> [adsh |-> d[i].adsh, form |-> d[i].form, period |-> d[i].period]]

\* lines 93-140, when no KeyError is raised
get_complete_filing_years(d) == DropYear(sort_values(FilterComplete(WithYear(d))))

\* the filing lists: row i has accession number i
FilingKinds == [form : Forms, period : Periods]
FilingLists(n) ==
  {[i \in DOMAIN s |-> [adsh |-> i, form |-> s[i].form, period |-> s[i].period]] :
     s \in SeqsUpTo(FilingKinds, n)}

\* ------------------------------------------------------ consolidation spec
MInit ==
  /\ table = FreshTable
  /\ pre = FreshTable
  /\ df = <<>>
  /\ filingDate = ""
  /\ calls = 0
  /\ fed = 0
  /\ seenDates = {}
  /\ seenCombs = {}

SIdle == row = <<>> /\ merged = "None" /\ spc = "idle"
PIdle ==
  /\ ppc = "idle" /\ comp = 0 /\ completeFilings = <<>> /\ pos = 0
  /\ tables = <<>> /\ csv = <<>> /\ log = <<>> /\ failedAt = <<>>
FIdle == filings = <<>> /\ complete = <<>> /\ fpc = "idle"

Init ==
  /\ MInit
  /\ SIdle
  /\ FIdle
  /\ PIdle

AppendFilings ==
  /\ calls < MaxCalls
  /\ \E d \in Dfs[MaxFed - fed], fd \in FilingDates :
       \E ord \in AddOrders(table, d) :
         /\ table' = appendFilings(table, d, fd, ord)
         /\ pre' = table
         /\ df' = d
         /\ filingDate' = fd
         /\ fed' = fed + Len(d)
         /\ seenDates' = seenDates \cup {fd}
         /\ seenCombs' = seenCombs \cup new_combinations(d)
  /\ calls' = calls + 1
  /\ UNCHANGED <<svars, fvars, pvars>>

Next == AppendFilings

Spec == Init /\ [][Next]_vars

\* ------------------------------------------------------ select_value spec
SelInit ==
  /\ row \in SeqsUpTo(Candidates, MaxCands)
  /\ merged = "None"
  /\ spc = "call"
  /\ MInit
  /\ FIdle
  /\ PIdle

SelectValue ==
  /\ spc = "call"
  /\ merged' = select_value(row)
  /\ spc' = "done"
  /\ UNCHANGED <<row, mvars, fvars, pvars>>

SelNext == SelectValue

SelSpec == SelInit /\ [][SelNext]_vars

\* ----------------------------------------------- completeness filter spec
FilterInit ==
  /\ filings \in FilingLists(MaxFilings)
  /\ complete = <<>>
  /\ fpc = "call"
  /\ MInit
  /\ SIdle
  /\ PIdle

GetCompleteReturns ==
  /\ fpc = "call"
  /\ ~RaisesKeyError(WithYear(filings))
  /\ complete' = get_complete_filing_years(filings)
  /\ fpc' = "returned"
  /\ UNCHANGED <<filings, mvars, svars, pvars>>

GetCompleteRaises ==
  /\ fpc = "call"
  /\ RaisesKeyError(WithYear(filings))
  /\ fpc' = "KeyError"
  /\ UNCHANGED <<filings, complete, mvars, svars, pvars>>

FilterNext == GetCompleteReturns \/ GetCompleteRaises

FilterSpec == FilterInit /\ [][FilterNext]_vars

\* ------------------------------------------------------------- __main__
\* lines 152-159, the first two names
CompanyNames == <<"Apple Inc", "Johnson & Johnson">>

\* line 181: the 10-K and 10-Q filings the index lists, sorted by period
ListedKinds ==
  {[form |-> "10-Q", period |-> 20220331], [form |-> "10-Q", period |-> 20220630],
   [form |-> "10-Q", period |-> 20220930], [form |-> "10-K", period |-> 20221231],
   [form |-> "10-Q", period |-> 20230331]}
ListedFilings ==
  {[i \in DOMAIN s |-> [adsh |-> i, form |-> s[i].form, period |-> s[i].period]] :
     s \in {t \in SeqsUpTo(ListedKinds, MaxListed) :
              \A i, j \in DOMAIN t : i < j => t[i].period <= t[j].period}}

\* line 189: what the presenter can return for a report, the value columns
\* after 'inpth' gathered in cands
Statements ==
  {<<[tag |-> "Revenue", stmt |-> "IS", cands |-> <<"NaN", "100", "50">>]>>,
   <<[tag |-> "NetIncome", stmt |-> "IS", cands |-> <<"100", "NaN">>]>>}

\* lines 191-192: df['merged'] = cols_after_inpth.apply(select_value, axis=1)
WithMerged(st) ==
  [i \in DOMAIN st |->
     [tag |-> st[i].tag, stmt |-> st[i].stmt, merged |-> select_value(st[i].cands)]]

Pad2(n) == IF n < 10 THEN "0" \o ToString(n) ELSE ToString(n)
Pad4(n) ==
  IF n < 10 THEN "000" \o ToString(n)
  ELSE IF n < 100 THEN "00" \o ToString(n)
  ELSE IF n < 1000 THEN "0" \o ToString(n) ELSE ToString(n)

\* line 194: row.period.strftime('%d_%m_%Y')
strftime(dt) == Pad2(dt.day) \o "_" \o Pad2(dt.month) \o "_" \o Pad4(dt.year)

PipeInit ==
  /\ ppc = "company"
  /\ comp = 1
  /\ completeFilings = <<>>
  /\ pos = 0
  /\ tables = [c \in DOMAIN CompanyNames |-> FreshTable]
  /\ csv = <<>>
  /\ log = [c \in DOMAIN CompanyNames |-> <<>>]
  /\ failedAt = <<>>
  /\ MInit
  /\ SIdle
  /\ FIdle

\* lines 179-184, the filter returning
StartCompany ==
  /\ ppc = "company"
  /\ \E filingList \in ListedFilings :
       /\ ~RaisesKeyError(WithYear(filingList))
       /\ completeFilings' = get_complete_filing_years(filingList)
  /\ pos' = 1
  /\ ppc' = "loop"
  /\ UNCHANGED <<comp, tables, csv, log, failedAt, mvars, svars, fvars>>

\* lines 179-183, the filter raising: the run ends
StartCompanyRaises ==
  /\ ppc = "company"
  /\ \E filingList \in ListedFilings : RaisesKeyError(WithYear(filingList))
  /\ ppc' = "failed"
  /\ UNCHANGED <<comp, completeFilings, pos, tables, csv, log, failedAt, mvars, svars, fvars>>

\* line 194: the call is made on the object of the company at hand
MergeInto(tbls, c, d, fd, ord) ==
  [tbls EXCEPT ![c] = appendFilings(tbls[c], d, fd, ord)]

\* lines 185-194: one filing retrieved, presented, selected and merged
ProcessFiling ==
  /\ ppc = "loop"
  /\ pos <= Len(completeFilings)
  /\ \E st \in Statements :
       LET d == WithMerged(st)
           fd == strftime(completeFilings[pos].period)
       IN \E ord \in AddOrders(tables[comp], d) :
            /\ tables' = MergeInto(tables, comp, d, fd, ord)
            /\ log' = [log EXCEPT ![comp] =
                         Append(@, [adsh |-> completeFilings[pos].adsh,
                                    period |-> completeFilings[pos].period,
                                    date |-> fd, df |-> d])]
  /\ pos' = pos + 1
  /\ UNCHANGED <<ppc, comp, completeFilings, csv, failedAt, mvars, svars, fvars>>

\* lines 186-189 with the exception caught and the loop going on
Propagate_swallowed ==
  /\ ppc' = "loop"
  /\ pos' = pos + 1

\* lines 186-189: nothing catches the exception, the run ends where it is
Propagate ==
  /\ ppc' = "failed"
  /\ pos' = pos

\* lines 186-189: the collector or the presenter raises
RetrievalFails ==
  /\ ppc = "loop"
  /\ pos <= Len(completeFilings)
  /\ failedAt = <<>>
  /\ failedAt' = <<comp, pos>>
  /\ Propagate
  /\ UNCHANGED <<comp, completeFilings, tables, csv, log, mvars, svars, fvars>>

\* lines 179, 185: the rows are exhausted, on to the next company
NextCompany ==
  /\ ppc = "loop"
  /\ pos > Len(completeFilings)
  /\ IF comp < Len(CompanyNames)
     THEN comp' = comp + 1 /\ ppc' = "company"
     ELSE comp' = comp /\ ppc' = "csv"
  /\ UNCHANGED <<completeFilings, pos, tables, csv, log, failedAt, mvars, svars, fvars>>

\* lines 197-199
WriteCsv ==
  /\ ppc = "csv"
  /\ csv' = tables
  /\ ppc' = "done"
  /\ UNCHANGED <<comp, completeFilings, pos, tables, log, failedAt, mvars, svars, fvars>>

PipeNext ==
  \/ StartCompany
  \/ StartCompanyRaises
  \/ ProcessFiling
  \/ RetrievalFails
  \/ NextCompany
  \/ WriteCsv

PipeSpec == PipeInit /\ [][PipeNext]_vars

\* ------------------------------------------------- reading a table
KeyOf(r) == <<r["tag"], r["stmt"]>>
TableKeys(T) == {KeyOf(T.rows[i]) : i \in DOMAIN T.rows}
DfKeys(d) == {<<d[i].tag, d[i].stmt>> : i \in DOMAIN d}
DateCols(T) == Range(T.cols) \ {"tag", "stmt"}
RowsOf(T, comb) == {i \in DOMAIN T.rows : KeyOf(T.rows[i]) = comb}
Occurrences(d, comb) == Cardinality({i \in DOMAIN d : <<d[i].tag, d[i].stmt>> = comb})
\* the cell holds v, an absent v being held as an absent cell
Holds(cell, v) == IF notna(v) THEN cell = v ELSE ~notna(cell)

\* C3: appendFilings is idempotent: after a call with (df, filingDate), on
\* any table a sequence of calls reaches, a second call with the same pair
\* leaves the rows, the columns and every cell as the first call left them.
C3_Idempotent ==
  calls > 0 => \A T2 \in AppendResults(table, df, filingDate) : T2 = table

C3_Witness ==
  /\ calls = 2
  /\ Len(pre.rows) > 0
  /\ Len(df) = 2
  /\ DfKeys(df) \ TableKeys(pre) # {}
  /\ \E i \in DOMAIN df : notna(df[i].merged)

\* C4: after appendFilings(df, filingDate) every (tag, stmt) that occurs
\* once in df has exactly one row, whose cell under filingDate holds the
\* value df gives it (absent when that value is absent) whatever it held
\* before; a row the call added is absent under every other date column,
\* and a row the call does not name is absent under a date column the call
\* created.
C4_CellWritten ==
  calls > 0 =>
    /\ \A k \in DOMAIN df :
         LET comb == <<df[k].tag, df[k].stmt>> IN
         Occurrences(df, comb) = 1 =>
           /\ Cardinality(RowsOf(table, comb)) = 1
           /\ \A i \in RowsOf(table, comb) :
                /\ filingDate \in DOMAIN table.rows[i]
                /\ Holds(table.rows[i][filingDate], df[k].merged)
    /\ \A i \in DOMAIN table.rows :
         LET comb == KeyOf(table.rows[i]) IN
         /\ comb \notin TableKeys(pre) =>
              \A c \in DateCols(table) \ {filingDate} : table.rows[i][c] = "None"
         /\ (comb \notin DfKeys(df) /\ ~HasCol(pre, filingDate)) =>
              table.rows[i][filingDate] = "None"

\* a cell that held one number is overwritten by another, in a table that
\* has a row of another filing under another date
C4_Witness ==
  /\ calls = 2
  /\ \E k \in DOMAIN df, i \in DOMAIN pre.rows :
       /\ Occurrences(df, <<df[k].tag, df[k].stmt>>) = 1
       /\ KeyOf(pre.rows[i]) = <<df[k].tag, df[k].stmt>>
       /\ HasCol(pre, filingDate)
       /\ notna(pre.rows[i][filingDate])
       /\ notna(df[k].merged)
       /\ pre.rows[i][filingDate] # df[k].merged

\* C5: the date columns of the table are exactly the filingDates passed to
\* appendFilings so far; no call removes a column, a call with an empty df
\* included.
C5_ColumnsAreAllDates ==
  DateCols(table) = seenDates

\* C6: no two rows share a (tag, stmt), the rows' keys are exactly the
\* (tag, stmt) pairs passed so far, and no call removes a row.
C6_KeysUnique ==
  /\ \A i, j \in DOMAIN table.rows :
       KeyOf(table.rows[i]) = KeyOf(table.rows[j]) => i = j
  /\ TableKeys(table) = seenCombs
  /\ Len(pre.rows) <= Len(table.rows)
  /\ \A i \in DOMAIN pre.rows : KeyOf(table.rows[i]) = KeyOf(pre.rows[i])

\* a key of an earlier call comes again, beside the same tag under the
\* other statement, which gets a row of its own
C6_Witness ==
  /\ calls = 2
  /\ \E k \in DOMAIN df : <<df[k].tag, df[k].stmt>> \in TableKeys(pre)
  /\ Len(table.rows) > Len(pre.rows)
  /\ \E i, j \in DOMAIN table.rows :
       /\ table.rows[i]["tag"] = table.rows[j]["tag"]
       /\ table.rows[i]["stmt"] # table.rows[j]["stmt"]

\* C7: appendFilings(df, filingDate) leaves every cell of the rows and
\* columns it found unchanged outside column filingDate, and inside column
\* filingDate unchanged for the rows whose key is not in df.
C7_Frame ==
  calls > 0 =>
    \A i \in DOMAIN pre.rows :
      /\ i \in DOMAIN table.rows
      /\ \A c \in DOMAIN pre.rows[i] :
           (c # filingDate \/ KeyOf(pre.rows[i]) \notin DfKeys(df)) =>
             /\ c \in DOMAIN table.rows[i]
             /\ table.rows[i][c] = pre.rows[i][c]

\* a call writes into a column that exists, beside a row it does not name
\* that holds a number there and a row of the same tag that it names
C7_Witness ==
  /\ calls = 2
  /\ HasCol(pre, filingDate)
  /\ \E i, j \in DOMAIN pre.rows :
       /\ KeyOf(pre.rows[i]) \notin DfKeys(df)
       /\ notna(pre.rows[i][filingDate])
       /\ KeyOf(pre.rows[j]) \in DfKeys(df)
       /\ pre.rows[i]["tag"] = pre.rows[j]["tag"]
       /\ table.rows[j][filingDate] # pre.rows[j][filingDate]

\* ------------------------------------------------- claims on select_value
Present(r) == {i \in DOMAIN r : notna(r[i])}
Highest(S) == CHOOSE i \in S : \A j \in S : j <= i

\* C1: with n the number of non-absent candidates, select_value returns
\* None when n = 0, the one non-absent value when n = 1, the non-absent
\* value at the higher index when n = 2 and None when n >= 3, wherever the
\* absent candidates stand.
C1_SelectValue ==
  spc = "done" =>
    LET n == Cardinality(Present(row)) IN
    /\ n = 0 => merged = "None"
    /\ n = 1 => \A i \in Present(row) : merged = row[i]
    /\ n = 2 => merged = row[Highest(Present(row))]
    /\ n >= 3 => merged = "None"

\* two different numbers with an absent candidate between them and one after
C1_Witness ==
  /\ spc = "done"
  /\ Len(row) = 4
  /\ notna(row[1]) /\ ~notna(row[2]) /\ notna(row[3]) /\ ~notna(row[4])
  /\ row[1] # row[3]
  /\ merged = row[3]

\* ----------------------------------------- claims on the completeness filter
YearOf(p) == p \div 10000
CountIn(d, y, form) ==
  Cardinality({i \in DOMAIN d : YearOf(d[i].period) = y /\ d[i].form = form})
IsCompleteYear(d, y) == CountIn(d, y, "10-K") = 1 /\ CountIn(d, y, "10-Q") = 3
Qualifying(d) ==
  {i \in DOMAIN d : d[i].form \in {"10-K", "10-Q"} /\ IsCompleteYear(d, YearOf(d[i].period))}
AsNumber(dt) == dt.year * 10000 + dt.month * 100 + dt.day

\* C2: for every filing list the filter returns exactly the 10-K and 10-Q
\* filings of the years that have one 10-K and three 10-Q, each once, in
\* ascending order of period.
C2_ExactlyCompleteYears ==
  fpc # "call" =>
    /\ fpc = "returned"
    /\ {complete[i].adsh : i \in DOMAIN complete} = Qualifying(filings)
    /\ Len(complete) = Cardinality(Qualifying(filings))
    /\ \A i \in DOMAIN complete :
         /\ complete[i].form = filings[complete[i].adsh].form
         /\ AsNumber(complete[i].period) = filings[complete[i].adsh].period
    /\ \A i, j \in DOMAIN complete :
         i < j => ~Before(complete[j].period, complete[i].period)

\* C8: get_complete_filing_years returns for every filing list, the empty
\* list and the lists without any 10-K or without any 10-Q included.
C8_NeverRaises ==
  fpc # "call" => fpc = "returned"

\* ------------------------------------------------------ claims on __main__
\* C9: any two filings merged for one company are merged under different
\* dates, and the company's table has one date column per merged filing.
C9_DistinctDates ==
  \A c \in DOMAIN log :
    /\ \A i, j \in DOMAIN log[c] : i # j => log[c][i].date # log[c][j].date
    /\ Cardinality(DateCols(tables[c])) = Len(log[c])

\* the table the logged calls build, each listing its new rows in some order
RECURSIVE Replay(_, _)
Replay(lg, n) ==
  IF n = 0 THEN FreshTable
  ELSE LET T == Replay(lg, n - 1)
       IN appendFilings(T, lg[n].df, lg[n].date,
                        CHOOSE ord \in AddOrders(T, lg[n].df) : TRUE)

SameContent(A, B) ==
  /\ A.cols = B.cols
  /\ Len(A.rows) = Len(B.rows)
  /\ Range(A.rows) = Range(B.rows)

\* C10: the filings of a company are merged one at a time in the order the
\* filter returned them, which is ascending in period; once a retrieval
\* has failed the run has stopped: the failing filing and everything after
\* it, later companies included, is not merged; and every table holds what
\* the merges that returned wrote, nothing being rolled back.
C10_FatalFailure ==
  /\ \A c \in DOMAIN log :
       /\ SameContent(tables[c], Replay(log[c], Len(log[c])))
       /\ \A i, j \in DOMAIN log[c] :
            i < j => ~Before(log[c][j].period, log[c][i].period)
  /\ ppc = "loop" =>
       /\ Len(log[comp]) = pos - 1
       /\ \A i \in DOMAIN log[comp] : log[comp][i].adsh = completeFilings[i].adsh
  /\ failedAt # <<>> =>
       /\ ppc = "failed"
       /\ Len(log[failedAt[1]]) = failedAt[2] - 1
       /\ \A i \in DOMAIN log[failedAt[1]] :
            log[failedAt[1]][i].adsh = completeFilings[i].adsh
       /\ \A c \in DOMAIN log :
            c > failedAt[1] => log[c] = <<>> /\ tables[c] = FreshTable

\* the third filing of the second company fails after the first company's
\* four filings and two of the second's were merged
C10_Witness ==
  /\ failedAt = <<2, 3>>
  /\ Len(log[1]) = 4
  /\ Len(log[2]) = 2
  /\ Len(completeFilings) = 4
  /\ Len(tables[1].rows) = 2
  /\ Len(tables[2].rows) = 2

====
